---- MODULE Spec2Model ----
(***************************************************************************)
(* Circulation and catalogue handlers of the book manager, modelled at the *)
(* granularity of store round trips: every `await db.*` of a route handler *)
(* is one atomic step, the synchronous code between two awaits belongs to  *)
(* the step that precedes it.                                              *)
(***************************************************************************)
EXTENDS Integers, Sequences, FiniteSets, TLC

\* ------------------------------------------------------------------ bounds
MaxCopies == 2      \* totalCopies of the book at creation: 1..MaxCopies
MaxIssues == 2      \* BookIssue rows ever created
MaxTicks == 1       \* how often the clock advances
TickMinutes == 11   \* minutes per clock advance
NumOtp == 1         \* distinct codes generateOTP may draw in the model
MaxAudits == 3      \* BookOwnershipAudit rows ever created
MaxNewBooks == 1    \* Book rows a create handler may add

\* --------------------------------------------------------------- constants
EXPIRY_MINUTES == 10
OTP_LENGTH == 6
OTP_MIN == 100000
MIN_BOOK_COPIES == 1

USER_ROLES == [ADMIN |-> "ADMIN", BOOKKEEPER |-> "BOOKKEEPER", USER |-> "USER"]

\* A property read of a JavaScript object: a missing key reads as undefined.
Prop(obj, key) == IF key \in DOMAIN obj THEN obj[key] ELSE "undefined"

BOOK_STATUS == [AVAILABLE |-> "AVAILABLE", ISSUED |-> "ISSUED"]
ISSUE_STATUS == [ISSUED |-> "ISSUED", RETURNED |-> "RETURNED"]

\* ------------------------------------------------------------------ tables
\* User table: the users, and the role each had when signing in. The role in
\* a session is the one copied into the token at sign-in (src/lib/auth.ts).
Users == {"admin", "keeper", "keeper2", "reader"}
UserRole ==
  [admin |-> "ADMIN", keeper |-> "BOOKKEEPER", keeper2 |-> "BOOKKEEPER",
   reader |-> "USER"]

\* Sessions a request may carry: a user, or none.
Callers == Users \cup {"anon"}
\* userId values a request body may carry: existing users and an unknown id.
UserIdInputs == {"reader", "ghost"}
BookIds == {"b1"}
\* bookId values a request may carry (a deleted book's id is the unknown id).
BookIdInputs == BookIds
ReqIds == {1, 2}

NoDate == -1
OtpCodes == OTP_MIN..(OTP_MIN + NumOtp - 1)
\* otpCode values a return request may carry: the codes generateOTP draws in the
\* model, one more 6-digit code, and the largest 5-digit one.
ShortCode == OTP_MIN - 1
OtpInputs == OtpCodes \cup {OTP_MIN + NumOtp, ShortCode}

EmptyMap == [x \in {} |-> 0]

VARIABLES
  books,       \* Book table: id -> [totalCopies, availableCopies, status]
  issues,      \* BookIssue table: id -> row
  issueCount,  \* BookIssue rows ever created (row ids are never reused)
  now,         \* wall clock, minutes
  req,         \* request slots: the in-flight handler invocations
  audits,      \* BookOwnershipAudit table: rows in order of creation
  bookCount,   \* Book rows ever created by a create handler (ids are not reused)
  roles,       \* User table: id -> role
  pre          \* history: the latest request and the store when it began

vars == <<books, issues, issueCount, now, req, audits, bookCount, roles, pre>>

\* A request body field that may be absent: the empty set, or one value.
Optional(S) == {{}} \cup {{x} : x \in S}

\* The body of an update that names no field.
NoData == [isbn |-> {}, totalCopies |-> {}]

Idle ==
  [op |-> "none", pc |-> "idle", caller |-> "none", bookId |-> "none",
   userId |-> "none", otpCode |-> 0, book |-> EmptyMap, bookIssue |-> 0,
   newOtp |-> 0, newExpires |-> 0, via |-> "none", isbn |-> "none",
   totalCopies |-> 0, ownerId |-> "none", newOwnerId |-> "none",
   data |-> NoData, email |-> "none", role |-> "none", history |-> <<>>,
   result |-> "none"]

InFlight(r) == req[r].pc \notin {"idle", "done"}

\* A handler returning: its frame is gone, its response stays in the slot.
Done(op, res) == [Idle EXCEPT !.op = op, !.pc = "done", !.result = res]

\* The history recorded when a request begins: the request, the store and the
\* clock at that moment, and in before the Book table as it was when the
\* request just answered began (kept for a return that follows a successful
\* issue of the same book to the same user, empty otherwise).
Snapshot(op, c, b, u, code, before) ==
  [op |-> op, caller |-> c, bookId |-> b, userId |-> u, otpCode |-> code,
   books |-> books, issues |-> issues, audits |-> audits, at |-> now,
   before |-> before]

\* ownerId of an audit row of the first assignment
NoOwner == "null"

\* db.book.create of the create handlers: availableCopies = totalCopies, status
\* by default
NewBook(isbn, n, owner) ==
  [isbn |-> isbn, ownerId |-> owner, totalCopies |-> n, availableCopies |-> n,
   status |-> BOOK_STATUS.AVAILABLE]

\* db.bookOwnershipAudit.create
NewAudit(b, from, to, by) ==
  [bookId |-> b, fromOwnerId |-> from, toOwnerId |-> to, performedById |-> by]

\* The catalogue starts with one book, created by a bookkeeper.
FirstBook == CHOOSE b \in BookIds : TRUE
FirstIsbn == "i1"
FirstOwner == "keeper"

\* A freshly created book.
FreshBook(n) == NewBook(FirstIsbn, n, FirstOwner)

Init ==
  /\ \E n \in MIN_BOOK_COPIES..MaxCopies : books = [b \in BookIds |-> FreshBook(n)]
  /\ issues = EmptyMap
  /\ issueCount = 0
  /\ now = 0
  /\ req = [r \in ReqIds |-> Idle]
  /\ audits = <<NewAudit(FirstBook, NoOwner, FirstOwner, FirstOwner)>>
  /\ bookCount = 0
  /\ roles = UserRole
  /\ pre = Snapshot("none", "none", "none", "none", 0, EmptyMap)

\* ------------------------------------------------------------- authorization
CallerRole(c) == IF c \in Users THEN UserRole[c] ELSE "none"

\* issue and return routes: [USER_ROLES.ADMIN, USER_ROLES.LIBRARIAN].includes(role)
CirculationRoles == {Prop(USER_ROLES, "ADMIN"), Prop(USER_ROLES, "LIBRARIAN")}

MayCirculate(c) == c \in Users /\ CallerRole(c) \in CirculationRoles

\* delete route: role === USER_ROLES.ADMIN
MayDelete(c) == c \in Users /\ CallerRole(c) = Prop(USER_ROLES, "ADMIN")

\* ---------------------------------------------------------------- issueBook
\* Variant: the availability test lets a book with no copy left through.
NoCopiesAvailableBelowZero(book) == book.availableCopies < 0

NoCopiesAvailable(book) == book.availableCopies <= 0

\* Variant: the issued copy is not taken off.
CopiesAfterIssueSame(book) == book.availableCopies

CopiesAfterIssue(book) == book.availableCopies - 1

\* Variant: the status is never switched to ISSUED.
StatusAfterIssueAlwaysAvailable(book) == BOOK_STATUS.AVAILABLE

StatusAfterIssue(book) ==
  IF book.availableCopies - 1 = 0 THEN BOOK_STATUS.ISSUED ELSE BOOK_STATUS.AVAILABLE

generateOTP == OtpCodes

\* Rows in flight count against MaxIssues, so that a started issue can finish.
IssueBudget ==
  issueCount + Cardinality({r \in ReqIds : InFlight(r) /\ req[r].op = "issue"}) < MaxIssues

\* auth, db.book.findUnique (the body is read only after the role check)
IssueBookBegin(r, c, b, u) ==
  /\ UNCHANGED roles
  /\ ~InFlight(r)
  /\ (MayCirculate(c) /\ b \in DOMAIN books /\ ~NoCopiesAvailable(books[b]))
       => IssueBudget
  /\ req' = [req EXCEPT ![r] =
       IF ~MayCirculate(c) THEN Done("issue", "UNAUTHORIZED")
       ELSE IF b \notin DOMAIN books THEN Done("issue", "BOOK_NOT_FOUND")
       ELSE IF NoCopiesAvailable(books[b]) THEN Done("issue", "NO_COPIES_AVAILABLE")
       ELSE [Idle EXCEPT !.op = "issue", !.pc = "findUser", !.caller = c,
                         !.bookId = b, !.userId = u, !.book = books[b]]]
  /\ UNCHANGED <<books, issues, issueCount, now, audits, bookCount>>

\* db.user.findUnique, then generateOTP() and Date.now() + expiry
IssueFindUser(r) ==
  /\ UNCHANGED roles
  /\ req[r].op = "issue" /\ req[r].pc = "findUser"
  /\ \E code \in generateOTP :
       req' = [req EXCEPT ![r] =
         IF req[r].userId \notin Users THEN Done("issue", "USER_NOT_FOUND")
         ELSE [req[r] EXCEPT !.pc = "createIssue", !.newOtp = code,
                             !.newExpires = now + EXPIRY_MINUTES]]
  /\ UNCHANGED <<books, issues, issueCount, now, audits, bookCount, pre>>

\* Variant: the row is created with status OVERDUE.
NewIssueOverdue(r) ==
  [bookId |-> req[r].bookId, userId |-> req[r].userId,
   status |-> "OVERDUE", otpCode |-> req[r].newOtp,
   otpExpires |-> req[r].newExpires, returnDate |-> NoDate]

NewIssue(r) ==
  [bookId |-> req[r].bookId, userId |-> req[r].userId,
   status |-> ISSUE_STATUS.ISSUED, otpCode |-> req[r].newOtp,
   otpExpires |-> req[r].newExpires, returnDate |-> NoDate]

\* db.bookIssue.create; the foreign key on bookId rejects a row of a deleted book
IssueCreate(r) ==
  /\ UNCHANGED roles
  /\ req[r].op = "issue" /\ req[r].pc = "createIssue"
  /\ IF req[r].bookId \notin DOMAIN books
       THEN /\ req' = [req EXCEPT ![r] = Done("issue", "INTERNAL_SERVER_ERROR")]
            /\ UNCHANGED <<issues, issueCount>>
       ELSE /\ issues' = issues @@ ((issueCount + 1) :> NewIssue(r))
            /\ issueCount' = issueCount + 1
            /\ req' = [req EXCEPT ![r].pc = "updateBook", ![r].bookIssue = issueCount + 1]
  /\ UNCHANGED <<books, now, audits, bookCount, pre>>

\* db.book.update with the values computed from the book read at the start
IssueUpdateBook(r) ==
  /\ UNCHANGED roles
  /\ req[r].op = "issue" /\ req[r].pc = "updateBook"
  /\ IF req[r].bookId \notin DOMAIN books
       THEN /\ req' = [req EXCEPT ![r] = Done("issue", "INTERNAL_SERVER_ERROR")]
            /\ UNCHANGED books
       ELSE /\ books' = [books EXCEPT ![req[r].bookId] =
                 [@ EXCEPT !.availableCopies = CopiesAfterIssue(req[r].book),
                           !.status = StatusAfterIssue(req[r].book)]]
            /\ req' = [req EXCEPT ![r] = Done("issue", "BOOK_ISSUED")]
  /\ UNCHANGED <<issues, issueCount, now, audits, bookCount, pre>>

\* --------------------------------------------------------------- returnBook
\* Number of characters of a code written in decimal.
RECURSIVE Digits(_)
Digits(n) == IF n < 10 THEN 1 ELSE 1 + Digits(n \div 10)

\* z.string().min(OTP_CONFIG.LENGTH)
OtpWellFormed(code) == Digits(code) >= OTP_LENGTH

\* where: { bookId, userId, status: ISSUED }, on a BookIssue table
IssuedRowsOf(table, b, u) ==
  {i \in DOMAIN table : /\ table[i].bookId = b
                        /\ table[i].userId = u
                        /\ table[i].status = ISSUE_STATUS.ISSUED}

IssuedRows(b, u) == IssuedRowsOf(issues, b, u)

\* Variant: the code comparison is skipped.
OtpMismatchSkipped(row, code) == FALSE

OtpMismatch(row, code) == row.otpCode # code

\* Variant: the expiry comparison is skipped.
OtpExpiredSkipped(row, t) == FALSE

OtpExpired(row, t) == row.otpExpires # NoDate /\ t > row.otpExpires

\* auth, body validation, db.bookIssue.findFirst (no ordering: any matching
\* row), then the code and expiry checks on the row that was read
ReturnBookBegin(r, c, b, u, code) ==
  /\ UNCHANGED roles
  /\ ~InFlight(r)
  /\ IF ~MayCirculate(c)
       THEN req' = [req EXCEPT ![r] = Done("return", "UNAUTHORIZED")]
     ELSE IF ~OtpWellFormed(code)
       THEN req' = [req EXCEPT ![r] = Done("return", "VALIDATION_ERROR")]
     ELSE IF IssuedRows(b, u) = {}
       THEN req' = [req EXCEPT ![r] = Done("return", "BOOK_NOT_FOUND")]
     ELSE \E i \in IssuedRows(b, u) :
       req' = [req EXCEPT ![r] =
         IF OtpMismatch(issues[i], code) THEN Done("return", "INVALID_OTP")
         ELSE IF OtpExpired(issues[i], now) THEN Done("return", "OTP_EXPIRED")
         ELSE [Idle EXCEPT !.op = "return", !.pc = "updateIssue", !.caller = c,
                           !.bookId = b, !.userId = u, !.otpCode = code,
                           !.bookIssue = i]]
  /\ UNCHANGED <<books, issues, issueCount, now, audits, bookCount>>

\* db.bookIssue.update where id: whatever the row's status is by now
ReturnUpdateIssue(r) ==
  /\ UNCHANGED roles
  /\ req[r].op = "return" /\ req[r].pc = "updateIssue"
  /\ IF req[r].bookIssue \notin DOMAIN issues
       THEN /\ req' = [req EXCEPT ![r] = Done("return", "INTERNAL_SERVER_ERROR")]
            /\ UNCHANGED issues
       ELSE /\ issues' = [issues EXCEPT ![req[r].bookIssue] =
                 [@ EXCEPT !.status = ISSUE_STATUS.RETURNED, !.returnDate = now]]
            /\ req' = [req EXCEPT ![r].pc = "findBook"]
  /\ UNCHANGED <<books, issueCount, now, audits, bookCount, pre>>

\* db.book.findUnique; a missing book skips the availability update
ReturnFindBook(r) ==
  /\ UNCHANGED roles
  /\ req[r].op = "return" /\ req[r].pc = "findBook"
  /\ req' = [req EXCEPT ![r] =
       IF req[r].bookId \notin DOMAIN books THEN Done("return", "BOOK_RETURNED")
       ELSE [req[r] EXCEPT !.pc = "updateBook", !.book = books[req[r].bookId]]]
  /\ UNCHANGED <<books, issues, issueCount, now, audits, bookCount, pre>>

\* Variant: the returned copy is not added back.
CopiesAfterReturnSame(book) == book.availableCopies

CopiesAfterReturn(book) == book.availableCopies + 1

\* Variant: the status is left as it was read.
StatusAfterReturnKept(book) == book.status

StatusAfterReturn(book) == BOOK_STATUS.AVAILABLE

\* db.book.update with the values computed from the book just read
ReturnUpdateBook(r) ==
  /\ UNCHANGED roles
  /\ req[r].op = "return" /\ req[r].pc = "updateBook"
  /\ IF req[r].bookId \notin DOMAIN books
       THEN /\ req' = [req EXCEPT ![r] = Done("return", "INTERNAL_SERVER_ERROR")]
            /\ UNCHANGED books
       ELSE /\ books' = [books EXCEPT ![req[r].bookId] =
                 [@ EXCEPT !.availableCopies = CopiesAfterReturn(req[r].book),
                           !.status = StatusAfterReturn(req[r].book)]]
            /\ req' = [req EXCEPT ![r] = Done("return", "BOOK_RETURNED")]
  /\ UNCHANGED <<issues, issueCount, now, audits, bookCount, pre>>

\* --------------------------------------------------------------- deleteBook
\* include: { bookIssues: { where: { status: ISSUED } } }, on a BookIssue table
ActiveIssuesOf(table, b) ==
  {i \in DOMAIN table : table[i].bookId = b /\ table[i].status = ISSUE_STATUS.ISSUED}

ActiveIssues(b) == ActiveIssuesOf(issues, b)

\* Variant: the active-issue check is skipped.
HasActiveIssuesSkipped(b) == FALSE

HasActiveIssues(b) == Cardinality(ActiveIssues(b)) > 0

\* auth, db.book.findUnique with its ISSUED rows
DeleteBookBegin(r, c, b) ==
  /\ UNCHANGED roles
  /\ ~InFlight(r)
  /\ req' = [req EXCEPT ![r] =
       IF ~MayDelete(c) THEN Done("delete", "UNAUTHORIZED")
       ELSE IF b \notin DOMAIN books THEN Done("delete", "BOOK_NOT_FOUND")
       ELSE IF HasActiveIssues(b) THEN Done("delete", "BOOK_WITH_ACTIVE_ISSUES")
       ELSE [Idle EXCEPT !.op = "delete", !.pc = "delete", !.caller = c, !.bookId = b]]
  /\ UNCHANGED <<books, issues, issueCount, now, audits, bookCount>>

\* Restriction of a table to the rows with ids in S.
Restrict(table, S) == [i \in S |-> table[i]]

\* BookIssue_bookId_fkey: ON DELETE CASCADE
CascadeIssues(b) == Restrict(issues, {i \in DOMAIN issues : issues[i].bookId # b})

\* Variant: the delete empties the audit table.
CascadeAuditsAll(b) == SelectSeq(audits, LAMBDA a : FALSE)

\* BookOwnershipAudit_bookId_fkey: ON DELETE CASCADE
CascadeAudits(b) == SelectSeq(audits, LAMBDA a : a.bookId # b)

\* db.book.delete
DeleteBookRow(r) ==
  /\ UNCHANGED roles
  /\ req[r].op = "delete" /\ req[r].pc = "delete"
  /\ IF req[r].bookId \notin DOMAIN books
       THEN /\ req' = [req EXCEPT ![r] = Done("delete", "INTERNAL_SERVER_ERROR")]
            /\ UNCHANGED <<books, issues, audits>>
       ELSE /\ books' = Restrict(books, DOMAIN books \ {req[r].bookId})
            /\ issues' = CascadeIssues(req[r].bookId)
            /\ audits' = CascadeAudits(req[r].bookId)
            /\ req' = [req EXCEPT ![r] = Done("delete", "BOOK_DELETED")]
  /\ UNCHANGED <<issueCount, now, bookCount, pre>>

\* -------------------------------------------------------- transferOwnership
\* The transfer entry points: PATCH of the ownership route, as first written
\* and as refactored over the api utilities, and PATCH of the books route.
TransferRoutes == {"ownership", "ownershipRefactored", "books"}

\* getUserRole(session) === USER_ROLES.ADMIN
isAdmin(c) == CallerRole(c) = Prop(USER_ROLES, "ADMIN")

\* getUserId(session) === ownerId
isOwner(c, ownerId) == c \in Users /\ c = ownerId

canEdit(c, ownerId) == isOwner(c, ownerId) \/ isAdmin(c)

\* Variant: any bookkeeper may transfer.
canTransferAnyKeeper(c, ownerId) ==
  CallerRole(c) = Prop(USER_ROLES, "BOOKKEEPER") \/ isAdmin(c)

canTransfer(c, ownerId) == isOwner(c, ownerId) \/ isAdmin(c)

\* [USER_ROLES.ADMIN, USER_ROLES.BOOKKEEPER].includes(role)
CatalogueRoles == {Prop(USER_ROLES, "ADMIN"), Prop(USER_ROLES, "BOOKKEEPER")}

HasCatalogueRole(c) == c \in Users /\ CallerRole(c) \in CatalogueRoles

\* The answer of a route's session and role check, "pass" when it admits c:
\* the ownership route as first written asks for a session only.
TransferGate(via, c) ==
  IF via = "ownership"
    THEN IF c \in Users THEN "pass" ELSE "UNAUTHORIZED"
  ELSE IF via = "ownershipRefactored"
    THEN IF c \notin Users THEN "AUTHENTICATION_REQUIRED"
         ELSE IF ~HasCatalogueRole(c) THEN "ROLE_REQUIRED"
         ELSE "pass"
  ELSE IF HasCatalogueRole(c) THEN "pass" ELSE "UNAUTHORIZED"

\* Audit rows in flight count against MaxAudits, so that a started request
\* can finish.
AuditBudget ==
  Len(audits) + Cardinality({r \in ReqIds :
    InFlight(r) /\ req[r].op \in {"transfer", "create"}}) < MaxAudits

\* session and role check, db.book.findUnique
TransferBegin(r, via, c, b, u) ==
  /\ UNCHANGED roles
  /\ ~InFlight(r)
  /\ (TransferGate(via, c) = "pass" /\ b \in DOMAIN books) => AuditBudget
  /\ req' = [req EXCEPT ![r] =
       IF TransferGate(via, c) # "pass" THEN Done("transfer", TransferGate(via, c))
       ELSE IF b \notin DOMAIN books THEN Done("transfer", "BOOK_NOT_FOUND")
       ELSE [Idle EXCEPT !.op = "transfer", !.pc = "findOwner", !.via = via,
                         !.caller = c, !.bookId = b, !.newOwnerId = u,
                         !.book = books[b]]]
  /\ UNCHANGED <<books, issues, issueCount, now, audits, bookCount>>

\* Variant: any existing user may become the owner.
ValidNewOwnerAnyUser(u) == u \in Users

\* newOwner exists and newOwner.role === USER_ROLES.BOOKKEEPER
ValidNewOwner(u) == u \in Users /\ roles[u] = Prop(USER_ROLES, "BOOKKEEPER")

\* Only the ownership route has the check book.ownerId === newOwnerId.
RefusesSameOwner(via) == via \in {"ownership", "ownershipRefactored"}

\* db.user.findUnique, then the checks on the book read at the start
TransferFindOwner(r) ==
  /\ UNCHANGED roles
  /\ req[r].op = "transfer" /\ req[r].pc = "findOwner"
  /\ LET c == req[r].caller
         u == req[r].newOwnerId
         book == req[r].book
     IN req' = [req EXCEPT ![r] =
          IF u \notin Users /\ req[r].via # "books"
            THEN Done("transfer", "NEW_OWNER_NOT_FOUND")
          ELSE IF ~ValidNewOwner(u)
            THEN Done("transfer", "NEW_OWNER_NOT_BOOKKEEPER")
          ELSE IF ~canTransfer(c, book.ownerId)
            THEN Done("transfer", "TRANSFER_FORBIDDEN")
          ELSE IF RefusesSameOwner(req[r].via) /\ book.ownerId = u
            THEN Done("transfer", "SAME_OWNER")
          ELSE [req[r] EXCEPT !.pc =
                  IF req[r].via = "books" THEN "updateBook" ELSE "commit"]]
  /\ UNCHANGED <<books, issues, issueCount, now, audits, bookCount, pre>>

\* The audit row of a transfer: fromOwnerId is the owner read at the start.
TransferAudit(r) ==
  NewAudit(req[r].bookId, req[r].book.ownerId, req[r].newOwnerId, req[r].caller)

\* ownership route: db.$transaction of tx.book.update and
\* tx.bookOwnershipAudit.create
TransferCommit(r) ==
  /\ UNCHANGED roles
  /\ req[r].op = "transfer" /\ req[r].pc = "commit"
  /\ IF req[r].bookId \notin DOMAIN books
       THEN /\ req' = [req EXCEPT ![r] = Done("transfer", "INTERNAL_SERVER_ERROR")]
            /\ UNCHANGED <<books, audits>>
       ELSE /\ books' = [books EXCEPT ![req[r].bookId].ownerId = req[r].newOwnerId]
            /\ audits' = Append(audits, TransferAudit(r))
            /\ req' = [req EXCEPT ![r] = Done("transfer", "OWNERSHIP_TRANSFERRED")]
  /\ UNCHANGED <<issues, issueCount, now, bookCount, pre>>

\* books route: db.book.update
TransferUpdateBook(r) ==
  /\ UNCHANGED roles
  /\ req[r].op = "transfer" /\ req[r].pc = "updateBook"
  /\ IF req[r].bookId \notin DOMAIN books
       THEN /\ req' = [req EXCEPT ![r] = Done("transfer", "INTERNAL_SERVER_ERROR")]
            /\ UNCHANGED books
       ELSE /\ books' = [books EXCEPT ![req[r].bookId].ownerId = req[r].newOwnerId]
            /\ req' = [req EXCEPT ![r].pc = "createAudit"]
  /\ UNCHANGED <<issues, issueCount, now, audits, bookCount, pre>>

\* books route: db.bookOwnershipAudit.create
TransferCreateAudit(r) ==
  /\ UNCHANGED roles
  /\ req[r].op = "transfer" /\ req[r].pc = "createAudit"
  /\ IF req[r].bookId \notin DOMAIN books
       THEN /\ req' = [req EXCEPT ![r] = Done("transfer", "INTERNAL_SERVER_ERROR")]
            /\ UNCHANGED audits
       ELSE /\ audits' = Append(audits, TransferAudit(r))
            /\ req' = [req EXCEPT ![r].pc = "reread"]
  /\ UNCHANGED <<books, issues, issueCount, now, bookCount, pre>>

\* books route: db.book.findUnique for the response
TransferReread(r) ==
  /\ UNCHANGED roles
  /\ req[r].op = "transfer" /\ req[r].pc = "reread"
  /\ req' = [req EXCEPT ![r] = Done("transfer", "OWNERSHIP_TRANSFERRED")]
  /\ UNCHANGED <<books, issues, issueCount, now, audits, bookCount, pre>>

\* --------------------------------------------------------------- createBook
\* The create entry points of the books route: POST with the transaction and
\* POST with two separate writes.
CreateRoutes == {"booksTransaction", "books"}

\* Ids the store gives to created books, in order of creation.
BookIdPool == <<"b2", "b3", "b4">>
NextBookId == BookIdPool[bookCount + 1]

\* db.book.findUnique({ where: { isbn } }) on a Book table
IsbnHoldersOf(table, isbn) == {b \in DOMAIN table : table[b].isbn = isbn}

\* Variant: the lookup by ISBN finds nothing.
IsbnExistsNever(isbn) == FALSE

IsbnExists(isbn) == IsbnHoldersOf(books, isbn) # {}

\* Book_isbn_key: the unique index rejects a second row with the ISBN.
IsbnIndexRejects(isbn, b) == IsbnHoldersOf(books, isbn) \ {b} # {}

\* Book rows in flight count against MaxNewBooks, so that a started create
\* can finish.
BookBudget ==
  bookCount + Cardinality({r \in ReqIds :
    InFlight(r) /\ req[r].op = "create" /\ req[r].bookId = "none"}) < MaxNewBooks

\* session and role check, schema, db.book.findUnique by ISBN, choice of owner
CreateBookBegin(r, via, c, isbn, n) ==
  /\ UNCHANGED roles
  /\ ~InFlight(r)
  /\ (HasCatalogueRole(c) /\ n >= MIN_BOOK_COPIES /\ ~IsbnExists(isbn))
       => (AuditBudget /\ BookBudget)
  /\ req' = [req EXCEPT ![r] =
       IF ~HasCatalogueRole(c) THEN Done("create", "UNAUTHORIZED")
       ELSE IF n < MIN_BOOK_COPIES THEN Done("create", "VALIDATION_ERROR")
       ELSE IF IsbnExists(isbn) THEN Done("create", "BOOK_ALREADY_EXISTS")
       ELSE [Idle EXCEPT !.op = "create", !.via = via, !.caller = c,
                         !.isbn = isbn, !.totalCopies = n,
                         !.ownerId = IF via = "books" /\ isAdmin(c) THEN "none" ELSE c,
                         !.pc = IF via = "booksTransaction" THEN "commit"
                                ELSE IF isAdmin(c) THEN "findKeeper"
                                ELSE "createBook"]]
  /\ UNCHANGED <<books, issues, issueCount, now, audits, bookCount>>

\* db.user.findFirst({ where: { role: BOOKKEEPER } }): no ordering, any of them
Bookkeepers == {u \in Users : roles[u] = Prop(USER_ROLES, "BOOKKEEPER")}

\* books route, ADMIN caller: the book goes to the first bookkeeper
CreateFindKeeper(r) ==
  /\ UNCHANGED roles
  /\ req[r].op = "create" /\ req[r].pc = "findKeeper"
  /\ IF Bookkeepers = {}
       THEN req' = [req EXCEPT ![r] = Done("create", "NO_BOOKKEEPER")]
       ELSE \E k \in Bookkeepers :
              req' = [req EXCEPT ![r].ownerId = k, ![r].pc = "createBook"]
  /\ UNCHANGED <<books, issues, issueCount, now, audits, bookCount, pre>>

\* books route with the transaction: tx.book.create and
\* tx.bookOwnershipAudit.create; the audit's performedById is the owner
CreateCommit(r) ==
  /\ UNCHANGED roles
  /\ req[r].op = "create" /\ req[r].pc = "commit"
  /\ IF IsbnIndexRejects(req[r].isbn, NextBookId)
       THEN /\ req' = [req EXCEPT ![r] = Done("create", "INTERNAL_SERVER_ERROR")]
            /\ UNCHANGED <<books, audits, bookCount>>
       ELSE /\ books' = books @@ (NextBookId :>
                 NewBook(req[r].isbn, req[r].totalCopies, req[r].ownerId))
            /\ audits' = Append(audits,
                 NewAudit(NextBookId, NoOwner, req[r].ownerId, req[r].ownerId))
            /\ bookCount' = bookCount + 1
            /\ req' = [req EXCEPT ![r] = Done("create", "BOOK_CREATED")]
  /\ UNCHANGED <<issues, issueCount, now, pre>>

\* books route with separate writes: db.book.create
CreateBookRow(r) ==
  /\ UNCHANGED roles
  /\ req[r].op = "create" /\ req[r].pc = "createBook"
  /\ IF IsbnIndexRejects(req[r].isbn, NextBookId)
       THEN /\ req' = [req EXCEPT ![r] = Done("create", "INTERNAL_SERVER_ERROR")]
            /\ UNCHANGED <<books, bookCount>>
       ELSE /\ books' = books @@ (NextBookId :>
                 NewBook(req[r].isbn, req[r].totalCopies, req[r].ownerId))
            /\ bookCount' = bookCount + 1
            /\ req' = [req EXCEPT ![r].pc = "createAudit", ![r].bookId = NextBookId]
  /\ UNCHANGED <<issues, issueCount, now, audits, pre>>

\* books route with separate writes: db.bookOwnershipAudit.create; the audit's
\* performedById is the caller
CreateAuditRow(r) ==
  /\ UNCHANGED roles
  /\ req[r].op = "create" /\ req[r].pc = "createAudit"
  /\ IF req[r].bookId \notin DOMAIN books
       THEN /\ req' = [req EXCEPT ![r] = Done("create", "INTERNAL_SERVER_ERROR")]
            /\ UNCHANGED audits
       ELSE /\ audits' = Append(audits,
                 NewAudit(req[r].bookId, NoOwner, req[r].ownerId, req[r].caller))
            /\ req' = [req EXCEPT ![r] = Done("create", "BOOK_CREATED")]
  /\ UNCHANGED <<books, issues, issueCount, now, bookCount, pre>>

\* --------------------------------------------------------------- updateBook
\* PUT of the book route: role === USER_ROLES.ADMIN
MayUpdate(c) == c \in Users /\ CallerRole(c) = Prop(USER_ROLES, "ADMIN")

\* updateBookSchema: totalCopies, when given, is at least MIN_BOOK_COPIES
UpdateDataValid(data) == \A n \in data.totalCopies : n >= MIN_BOOK_COPIES

\* validatedData.isbn && validatedData.isbn !== existingBook.isbn
ChangesIsbn(data, book) == \E i \in data.isbn : i # book.isbn

\* session and role check, schema, db.book.findUnique
UpdateBookBegin(r, c, b, data) ==
  /\ UNCHANGED roles
  /\ ~InFlight(r)
  /\ req' = [req EXCEPT ![r] =
       IF ~MayUpdate(c) THEN Done("update", "UNAUTHORIZED")
       ELSE IF ~UpdateDataValid(data) THEN Done("update", "VALIDATION_ERROR")
       ELSE IF b \notin DOMAIN books THEN Done("update", "BOOK_NOT_FOUND")
       ELSE [Idle EXCEPT !.op = "update", !.caller = c, !.bookId = b,
                         !.data = data, !.book = books[b],
                         !.pc = IF ChangesIsbn(data, books[b])
                                  THEN "checkIsbn" ELSE "update"]]
  /\ UNCHANGED <<books, issues, issueCount, now, audits, bookCount>>

\* db.book.findUnique by the new ISBN
UpdateCheckIsbn(r) ==
  /\ UNCHANGED roles
  /\ req[r].op = "update" /\ req[r].pc = "checkIsbn"
  /\ req' = [req EXCEPT ![r] =
       IF \E i \in req[r].data.isbn : IsbnExists(i)
         THEN Done("update", "BOOK_ALREADY_EXISTS")
         ELSE [req[r] EXCEPT !.pc = "update"]]
  /\ UNCHANGED <<books, issues, issueCount, now, audits, bookCount, pre>>

\* data: { ...validatedData }: the fields given replace the stored ones
UpdatedBook(book, data) ==
  [book EXCEPT
     !.isbn = IF data.isbn = {} THEN @ ELSE CHOOSE i \in data.isbn : TRUE,
     !.totalCopies = IF data.totalCopies = {} THEN @
                     ELSE CHOOSE n \in data.totalCopies : TRUE]

\* db.book.update
UpdateBookRow(r) ==
  /\ UNCHANGED roles
  /\ req[r].op = "update" /\ req[r].pc = "update"
  /\ IF \/ req[r].bookId \notin DOMAIN books
        \/ \E i \in req[r].data.isbn : IsbnIndexRejects(i, req[r].bookId)
       THEN /\ req' = [req EXCEPT ![r] = Done("update", "INTERNAL_SERVER_ERROR")]
            /\ UNCHANGED books
       ELSE /\ books' = [books EXCEPT ![req[r].bookId] = UpdatedBook(@, req[r].data)]
            /\ req' = [req EXCEPT ![r] = Done("update", "BOOK_UPDATED")]
  /\ UNCHANGED <<issues, issueCount, now, audits, bookCount, pre>>

\* ------------------------------------------------------- ownership history
HistoryRoutes == {"ownership", "ownershipRefactored"}

\* The answer of a GET's session and role check, "pass" when it admits c: the
\* route as first written asks for a session only, the refactored one for
\* requireRole([ADMIN, BOOKKEEPER]).
HistoryGate(via, c) ==
  IF via = "ownership"
    THEN IF c \in Users THEN "pass" ELSE "UNAUTHORIZED"
  ELSE IF c \notin Users THEN "AUTHENTICATION_REQUIRED"
  ELSE IF ~HasCatalogueRole(c) THEN "ROLE_REQUIRED"
  ELSE "pass"

\* where: { bookId }: the places in the table of the rows of book b. A row's
\* createdAt is the time it was inserted, so rows later in the table are newer.
AuditPlaces(b) == {k \in 1..Len(audits) : audits[k].bookId = b}

\* orderBy: { createdAt: "desc" }
RECURSIVE OrderByCreatedAtDesc(_)
OrderByCreatedAtDesc(places) ==
  IF places = {} THEN <<>>
  ELSE LET newest == CHOOSE k \in places : \A j \in places : j <= k
       IN <<audits[newest]>> \o OrderByCreatedAtDesc(places \ {newest})

\* session and role check, db.book.findUnique
HistoryBegin(r, via, c, b) ==
  /\ ~InFlight(r)
  /\ req' = [req EXCEPT ![r] =
       IF HistoryGate(via, c) # "pass" THEN Done("history", HistoryGate(via, c))
       ELSE IF b \notin DOMAIN books THEN Done("history", "BOOK_NOT_FOUND")
       ELSE [Idle EXCEPT !.op = "history", !.via = via, !.caller = c,
                         !.bookId = b, !.book = books[b], !.pc = "findAudits"]]
  /\ UNCHANGED <<books, issues, issueCount, now, audits, bookCount, roles>>

\* db.bookOwnershipAudit.findMany, and the response
HistoryFindAudits(r) ==
  /\ req[r].op = "history" /\ req[r].pc = "findAudits"
  /\ req' = [req EXCEPT ![r] =
       [Done("history", "OK") EXCEPT
          !.history = OrderByCreatedAtDesc(AuditPlaces(req[r].bookId))]]
  /\ UNCHANGED <<books, issues, issueCount, now, audits, bookCount, roles, pre>>

\* --------------------------------------------------------------- update user
\* User.email: every user has an address of their own.
UserEmail == [u \in Users |-> u]

\* updateUserSchema.role: z.enum([USER, BOOKKEEPER, ADMIN])
UserRoleEnum ==
  {Prop(USER_ROLES, "USER"), Prop(USER_ROLES, "BOOKKEEPER"), Prop(USER_ROLES, "ADMIN")}

\* session check, role check, schema, db.user.findUnique
UpdateUserBegin(r, c, u, email, role) ==
  /\ ~InFlight(r)
  /\ req' = [req EXCEPT ![r] =
       IF c \notin Users THEN Done("updateUser", "AUTHENTICATION_REQUIRED")
       ELSE IF CallerRole(c) # Prop(USER_ROLES, "ADMIN")
         THEN Done("updateUser", "ADMIN_REQUIRED")
       ELSE IF role \notin UserRoleEnum THEN Done("updateUser", "VALIDATION_ERROR")
       ELSE IF u \notin Users THEN Done("updateUser", "USER_NOT_FOUND")
       ELSE [Idle EXCEPT !.op = "updateUser", !.caller = c, !.userId = u,
                         !.email = email, !.role = role, !.pc = "checkEmail"]]
  /\ UNCHANGED <<books, issues, issueCount, now, audits, bookCount, roles>>

\* db.user.findFirst({ email, id: { not: id } })
UpdateUserCheckEmail(r) ==
  /\ req[r].op = "updateUser" /\ req[r].pc = "checkEmail"
  /\ req' = [req EXCEPT ![r] =
       IF \E v \in Users \ {req[r].userId} : UserEmail[v] = req[r].email
         THEN Done("updateUser", "EMAIL_TAKEN")
         ELSE [req[r] EXCEPT !.pc = "update"]]
  /\ UNCHANGED <<books, issues, issueCount, now, audits, bookCount, roles, pre>>

\* db.user.update: the role of the body replaces the stored one
UpdateUserRow(r) ==
  /\ req[r].op = "updateUser" /\ req[r].pc = "update"
  /\ roles' = [roles EXCEPT ![req[r].userId] = req[r].role]
  /\ req' = [req EXCEPT ![r] = Done("updateUser", "USER_UPDATED")]
  /\ UNCHANGED <<books, issues, issueCount, now, audits, bookCount, pre>>

\* ------------------------------------------------------------------ failure
\* The next store call of the in-flight request throws (the store is
\* unreachable): the handler's catch block answers 500; nothing is undone.
StoreFailure(r) ==
  /\ UNCHANGED roles
  /\ InFlight(r)
  /\ req' = [req EXCEPT ![r] = Done(req[r].op, "INTERNAL_SERVER_ERROR")]
  /\ UNCHANGED <<books, issues, issueCount, now, audits, bookCount, pre>>

\* -------------------------------------------------------------------- clock
Tick ==
  /\ UNCHANGED roles
  /\ now + TickMinutes <= MaxTicks * TickMinutes
  /\ now' = now + TickMinutes
  /\ UNCHANGED <<books, issues, issueCount, req, audits, bookCount, pre>>

\* ----------------------------------------------------------- specifications
\* A request arriving at slot r. Its body is read only once its caller has
\* passed the role check. record says whether the history is kept.
NoBody == [bookId |-> "none", userId |-> "none", otpCode |-> 0]

IssueBodies(c) ==
  IF MayCirculate(c)
    THEN [bookId : BookIdInputs, userId : UserIdInputs, otpCode : {0}]
    ELSE {NoBody}

ReturnBodies(c) ==
  IF MayCirculate(c)
    THEN [bookId : BookIdInputs, userId : UserIdInputs, otpCode : OtpInputs]
    ELSE {NoBody}

DeleteBodies(c) ==
  IF MayDelete(c)
    THEN [bookId : BookIdInputs, userId : {"none"}, otpCode : {0}]
    ELSE {NoBody}

BeginIssue(r, record) ==
  \E c \in Callers : \E body \in IssueBodies(c) :
    /\ IssueBookBegin(r, c, body.bookId, body.userId)
    /\ pre' = IF record
                THEN Snapshot("issue", c, body.bookId, body.userId, body.otpCode, EmptyMap)
                ELSE pre

\* Whether the request just answered in slot r issued book b to user u.
JustIssued(r, b, u) ==
  /\ req[r].op = "issue" /\ req[r].result = "BOOK_ISSUED"
  /\ pre.op = "issue" /\ pre.bookId = b /\ pre.userId = u

BeginReturn(r, record) ==
  \E c \in Callers : \E body \in ReturnBodies(c) :
    /\ ReturnBookBegin(r, c, body.bookId, body.userId, body.otpCode)
    /\ pre' = IF record
                THEN Snapshot("return", c, body.bookId, body.userId, body.otpCode,
                              IF JustIssued(r, body.bookId, body.userId)
                                THEN pre.books ELSE EmptyMap)
                ELSE pre

BeginDelete(r, record) ==
  \E c \in Callers : \E body \in DeleteBodies(c) :
    /\ DeleteBookBegin(r, c, body.bookId)
    /\ pre' = IF record
                THEN Snapshot("delete", c, body.bookId, body.userId, body.otpCode, EmptyMap)
                ELSE pre

\* Requests overlap: each slot runs its handler independently of the other.
Next ==
  \/ \E r \in ReqIds : BeginIssue(r, FALSE)
  \/ \E r \in ReqIds : IssueFindUser(r)
  \/ \E r \in ReqIds : IssueCreate(r)
  \/ \E r \in ReqIds : IssueUpdateBook(r)
  \/ \E r \in ReqIds : BeginReturn(r, FALSE)
  \/ \E r \in ReqIds : ReturnUpdateIssue(r)
  \/ \E r \in ReqIds : ReturnFindBook(r)
  \/ \E r \in ReqIds : ReturnUpdateBook(r)
  \/ \E r \in ReqIds : BeginDelete(r, FALSE)
  \/ \E r \in ReqIds : DeleteBookRow(r)
  \/ Tick

Spec == Init /\ [][Next]_vars

\* Requests one at a time, each running to its response before the next.
SeqNext ==
  \/ BeginIssue(1, TRUE)
  \/ IssueFindUser(1)
  \/ IssueCreate(1)
  \/ IssueUpdateBook(1)
  \/ BeginReturn(1, TRUE)
  \/ ReturnUpdateIssue(1)
  \/ ReturnFindBook(1)
  \/ ReturnUpdateBook(1)
  \/ BeginDelete(1, TRUE)
  \/ DeleteBookRow(1)
  \/ Tick

SeqSpec == Init /\ [][SeqNext]_vars

\* Requests one at a time, any store call of which may fail.
FailNext ==
  \/ SeqNext
  \/ StoreFailure(1)

FailSpec == Init /\ [][FailNext]_vars

\* ------------------------------------------------- catalogue specifications
Isbns == {"i1", "i2"}
\* totalCopies values a request may carry: one the schema rejects, one it admits.
CopyInputs == {MIN_BOOK_COPIES - 1, MaxCopies}
\* bookId values a catalogue request may carry (an id not yet given to a book
\* is the unknown id).
CatalogueBookIds == BookIds \cup {BookIdPool[k] : k \in 1..MaxNewBooks}
\* newOwnerId values: bookkeepers, a user who is none, and an unknown id.
NewOwnerInputs == {"keeper", "keeper2", "reader", "ghost"}

\* The history of a catalogue request.
CatalogueSnapshot(op, via, c, b, u, isbn, n, data) ==
  [via |-> via, newOwnerId |-> u, isbn |-> isbn, totalCopies |-> n, data |-> data]
    @@ Snapshot(op, c, b, "none", 0, EmptyMap)

TransferBodies(via, c) ==
  IF TransferGate(via, c) = "pass"
    THEN [bookId : CatalogueBookIds, newOwnerId : NewOwnerInputs]
    ELSE {[bookId |-> "none", newOwnerId |-> "none"]}

BeginTransfer(r, record) ==
  \E via \in TransferRoutes : \E c \in Callers : \E body \in TransferBodies(via, c) :
    /\ TransferBegin(r, via, c, body.bookId, body.newOwnerId)
    /\ pre' = IF record
                THEN CatalogueSnapshot("transfer", via, c, body.bookId,
                                       body.newOwnerId, "none", 0, NoData)
                ELSE pre

CreateBodies(c) ==
  IF HasCatalogueRole(c)
    THEN [isbn : Isbns, totalCopies : CopyInputs]
    ELSE {[isbn |-> "none", totalCopies |-> 0]}

BeginCreate(r, record) ==
  \E via \in CreateRoutes : \E c \in Callers : \E body \in CreateBodies(c) :
    /\ CreateBookBegin(r, via, c, body.isbn, body.totalCopies)
    /\ pre' = IF record
                THEN CatalogueSnapshot("create", via, c, "none", "none",
                                       body.isbn, body.totalCopies, NoData)
                ELSE pre

UpdateBodies(c) ==
  IF MayUpdate(c)
    THEN [bookId : CatalogueBookIds,
          data : [isbn : Optional(Isbns), totalCopies : Optional(CopyInputs)]]
    ELSE {[bookId |-> "none", data |-> NoData]}

\* The caller of an update is recorded with the book it names even when the
\* role check turns it away, the id being part of the URL.
BeginUpdate(r, record) ==
  \E c \in Callers : \E b \in CatalogueBookIds : \E body \in UpdateBodies(c) :
    /\ body.bookId \in {b, "none"}
    /\ UpdateBookBegin(r, c, b, body.data)
    /\ pre' = IF record
                THEN CatalogueSnapshot("update", "none", c, b, "none", "none", 0,
                                       body.data)
                ELSE pre

\* Transfer and create requests overlap.
OwnershipNext ==
  \/ \E r \in ReqIds : BeginTransfer(r, FALSE)
  \/ \E r \in ReqIds : TransferFindOwner(r)
  \/ \E r \in ReqIds : TransferCommit(r)
  \/ \E r \in ReqIds : TransferUpdateBook(r)
  \/ \E r \in ReqIds : TransferCreateAudit(r)
  \/ \E r \in ReqIds : TransferReread(r)
  \/ \E r \in ReqIds : BeginCreate(r, FALSE)
  \/ \E r \in ReqIds : CreateFindKeeper(r)
  \/ \E r \in ReqIds : CreateCommit(r)
  \/ \E r \in ReqIds : CreateBookRow(r)
  \/ \E r \in ReqIds : CreateAuditRow(r)

OwnershipSpec == Init /\ [][OwnershipNext]_vars

\* Catalogue requests one at a time.
CatalogueSeqNext ==
  \/ BeginTransfer(1, TRUE)
  \/ TransferFindOwner(1)
  \/ TransferCommit(1)
  \/ TransferUpdateBook(1)
  \/ TransferCreateAudit(1)
  \/ TransferReread(1)
  \/ BeginCreate(1, TRUE)
  \/ CreateFindKeeper(1)
  \/ CreateCommit(1)
  \/ CreateBookRow(1)
  \/ CreateAuditRow(1)
  \/ BeginUpdate(1, TRUE)
  \/ UpdateCheckIsbn(1)
  \/ UpdateBookRow(1)

CatalogueSeqSpec == Init /\ [][CatalogueSeqNext]_vars

\* Catalogue requests one at a time, any store call of which may fail.
CatalogueFailNext ==
  \/ BeginTransfer(1, FALSE)
  \/ TransferFindOwner(1)
  \/ TransferCommit(1)
  \/ TransferUpdateBook(1)
  \/ TransferCreateAudit(1)
  \/ TransferReread(1)
  \/ BeginCreate(1, FALSE)
  \/ CreateFindKeeper(1)
  \/ CreateCommit(1)
  \/ CreateBookRow(1)
  \/ CreateAuditRow(1)
  \/ BeginUpdate(1, FALSE)
  \/ UpdateCheckIsbn(1)
  \/ UpdateBookRow(1)
  \/ StoreFailure(1)

CatalogueFailSpec == Init /\ [][CatalogueFailNext]_vars

\* id values an update of a user may name: a book owner and an unknown id.
UpdateUserIds == {FirstOwner, "ghost"}
\* role values the body may carry: two of the enum and one outside it.
RoleInputs == {"USER", "BOOKKEEPER", "LIBRARIAN"}

UpdateUserBodies(c) ==
  IF c \in Users /\ CallerRole(c) = Prop(USER_ROLES, "ADMIN")
    THEN [id : UpdateUserIds, email : {UserEmail[u] : u \in {FirstOwner, "reader"}},
          role : RoleInputs]
    ELSE {[id |-> "none", email |-> "none", role |-> "none"]}

BeginUpdateUser(r) ==
  \E c \in Callers : \E body \in UpdateUserBodies(c) :
    /\ UpdateUserBegin(r, c, body.id, body.email, body.role)
    /\ UNCHANGED pre

\* Create, transfer and update-user requests one at a time.
RoleNext ==
  \/ BeginTransfer(1, FALSE)
  \/ TransferFindOwner(1)
  \/ TransferCommit(1)
  \/ TransferUpdateBook(1)
  \/ TransferCreateAudit(1)
  \/ TransferReread(1)
  \/ BeginCreate(1, FALSE)
  \/ CreateFindKeeper(1)
  \/ CreateCommit(1)
  \/ CreateBookRow(1)
  \/ CreateAuditRow(1)
  \/ BeginUpdateUser(1)
  \/ UpdateUserCheckEmail(1)
  \/ UpdateUserRow(1)

RoleSpec == Init /\ [][RoleNext]_vars

\* ----------------------------------------------------- stock specifications
\* totalCopies values an update may carry: every count the schema admits.
StockCopyInputs == MIN_BOOK_COPIES..MaxCopies

StockIssueBodies(c) ==
  IF MayCirculate(c)
    THEN [bookId : CatalogueBookIds, userId : UserIdInputs, otpCode : {0}]
    ELSE {NoBody}

StockReturnBodies(c) ==
  IF MayCirculate(c)
    THEN [bookId : CatalogueBookIds, userId : UserIdInputs, otpCode : OtpCodes]
    ELSE {NoBody}

StockUpdateBodies(c) ==
  IF MayUpdate(c)
    THEN [bookId : BookIds,
          data : [isbn : {{}}, totalCopies : Optional(StockCopyInputs)]]
    ELSE {[bookId |-> "none", data |-> NoData]}

BeginStockIssue(r) ==
  \E c \in Callers : \E body \in StockIssueBodies(c) :
    /\ IssueBookBegin(r, c, body.bookId, body.userId)
    /\ UNCHANGED pre

BeginStockReturn(r) ==
  \E c \in Callers : \E body \in StockReturnBodies(c) :
    /\ ReturnBookBegin(r, c, body.bookId, body.userId, body.otpCode)
    /\ UNCHANGED pre

BeginStockUpdate(r) ==
  \E c \in Callers : \E b \in BookIds : \E body \in StockUpdateBodies(c) :
    /\ body.bookId \in {b, "none"}
    /\ UpdateBookBegin(r, c, b, body.data)
    /\ pre' = CatalogueSnapshot("update", "none", c, b, "none", "none", 0, body.data)

\* Create, issue and return requests one at a time, on the first book and on
\* the books created.
StockNext ==
  \/ BeginCreate(1, FALSE)
  \/ CreateFindKeeper(1)
  \/ CreateCommit(1)
  \/ CreateBookRow(1)
  \/ CreateAuditRow(1)
  \/ BeginStockIssue(1)
  \/ IssueFindUser(1)
  \/ IssueCreate(1)
  \/ IssueUpdateBook(1)
  \/ BeginStockReturn(1)
  \/ ReturnUpdateIssue(1)
  \/ ReturnFindBook(1)
  \/ ReturnUpdateBook(1)

StockSpec == Init /\ [][StockNext]_vars

\* Issue, return and update requests one at a time, on the first book.
RestockNext ==
  \/ BeginIssue(1, FALSE)
  \/ IssueFindUser(1)
  \/ IssueCreate(1)
  \/ IssueUpdateBook(1)
  \/ BeginReturn(1, FALSE)
  \/ ReturnUpdateIssue(1)
  \/ ReturnFindBook(1)
  \/ ReturnUpdateBook(1)
  \/ BeginStockUpdate(1)
  \/ UpdateBookRow(1)

RestockSpec == Init /\ [][RestockNext]_vars

\* --------------------------------------------------- history specification
BeginHistory(r) ==
  \E via \in HistoryRoutes : \E c \in Callers : \E b \in CatalogueBookIds :
    /\ HistoryBegin(r, via, c, b)
    /\ pre' = CatalogueSnapshot("history", via, c, b, "none", "none", 0, NoData)

\* Transfer, create and history requests one at a time.
HistoryNext ==
  \/ BeginTransfer(1, FALSE)
  \/ TransferFindOwner(1)
  \/ TransferCommit(1)
  \/ TransferUpdateBook(1)
  \/ TransferCreateAudit(1)
  \/ TransferReread(1)
  \/ BeginCreate(1, FALSE)
  \/ CreateFindKeeper(1)
  \/ CreateCommit(1)
  \/ CreateBookRow(1)
  \/ CreateAuditRow(1)
  \/ BeginHistory(1)
  \/ HistoryFindAudits(1)

HistorySpec == Init /\ [][HistoryNext]_vars

\* ------------------------------------------------- audit log specification
AuditLogDeleteBodies(c) ==
  IF MayDelete(c)
    THEN [bookId : CatalogueBookIds, userId : {"none"}, otpCode : {0}]
    ELSE {NoBody}

BeginAuditLogDelete(r) ==
  \E c \in Callers : \E body \in AuditLogDeleteBodies(c) :
    /\ DeleteBookBegin(r, c, body.bookId)
    /\ UNCHANGED pre

\* Transfer, create and delete requests one at a time.
AuditLogNext ==
  \/ BeginTransfer(1, FALSE)
  \/ TransferFindOwner(1)
  \/ TransferCommit(1)
  \/ TransferUpdateBook(1)
  \/ TransferCreateAudit(1)
  \/ TransferReread(1)
  \/ BeginCreate(1, FALSE)
  \/ CreateFindKeeper(1)
  \/ CreateCommit(1)
  \/ CreateBookRow(1)
  \/ CreateAuditRow(1)
  \/ BeginAuditLogDelete(1)
  \/ DeleteBookRow(1)

AuditLogSpec == Init /\ [][AuditLogNext]_vars

\* ------------------------------------------------------------------- claims
\* The request of slot 1 has been answered (sequential runs use slot 1 only).
Answered(op) == pre.op = op /\ req[1].op = op /\ req[1].pc = "done"

StoreAsBefore == books = pre.books /\ issues = pre.issues

\* C1: in every state reached by issue and return requests made one after the
\* other on a freshly created book, 0 <= availableCopies <= totalCopies.
C1_CopiesInRange ==
  \A b \in DOMAIN books :
    /\ 0 <= books[b].availableCopies
    /\ books[b].availableCopies <= books[b].totalCopies

\* An issue request in flight that read the book with one copy left.
SawLastCopy(r) ==
  /\ req[r].op = "issue" /\ InFlight(r)
  /\ req[r].book.availableCopies = 1

\* The request in slot r has created its ISSUED row.
CreatedIssue(r) ==
  /\ req[r].bookIssue \in DOMAIN issues
  /\ issues[req[r].bookIssue].status = ISSUE_STATUS.ISSUED

\* C2: of two overlapping issue requests that both read the same book with
\* availableCopies = 1, at most one creates an ISSUED row.
C2_LastCopyIssuedOnce ==
  \A r1, r2 \in ReqIds :
    (/\ r1 # r2
     /\ SawLastCopy(r1) /\ SawLastCopy(r2)
     /\ req[r1].bookId = req[r2].bookId)
    => ~(CreatedIssue(r1) /\ CreatedIssue(r2))

\* C3: an issue request, admitted by the role check, for a book with
\* availableCopies = 0 is answered NO_COPIES_AVAILABLE and writes nothing.
C3_Case ==
  /\ pre.op = "issue"
  /\ MayCirculate(pre.caller)
  /\ pre.bookId \in DOMAIN pre.books
  /\ pre.books[pre.bookId].availableCopies = 0

C3_NoCopiesRejected ==
  C3_Case => /\ req[1].pc = "done"
             /\ req[1].result = "NO_COPIES_AVAILABLE"
             /\ StoreAsBefore

C3_Witness == C3_Case /\ Answered("issue") /\ req[1].result = "NO_COPIES_AVAILABLE"

\* C4: a successful issue of a book with availableCopies = n > 0 adds exactly
\* one row, ISSUED, of that book and user, leaves every other row alone, sets
\* availableCopies to n - 1 and the status to ISSUED iff n - 1 = 0.
C4_IssueEffect ==
  (Answered("issue") /\ req[1].result = "BOOK_ISSUED") =>
    LET b == pre.bookId
        n == pre.books[b].availableCopies
        new == DOMAIN issues \ DOMAIN pre.issues
    IN /\ n > 0
       /\ Cardinality(new) = 1
       /\ \A i \in new : /\ issues[i].bookId = b
                         /\ issues[i].userId = pre.userId
                         /\ issues[i].status = "ISSUED"
       /\ \A i \in DOMAIN pre.issues : i \in DOMAIN issues /\ issues[i] = pre.issues[i]
       /\ DOMAIN books = DOMAIN pre.books
       /\ books[b].totalCopies = pre.books[b].totalCopies
       /\ books[b].availableCopies = n - 1
       /\ books[b].status = IF n - 1 = 0 THEN "ISSUED" ELSE "AVAILABLE"

\* The second issue of a book of two copies took the last copy.
C4_Witness ==
  /\ Answered("issue") /\ req[1].result = "BOOK_ISSUED"
  /\ books[pre.bookId].totalCopies = 2
  /\ books[pre.bookId].availableCopies = 0
  /\ books[pre.bookId].status = "ISSUED"

\* The ISSUED rows a return request matched when it began.
MatchedRows == IssuedRowsOf(pre.issues, pre.bookId, pre.userId)

\* A return request admitted by the role check and the body schema that
\* matched at least one ISSUED row.
ReturnCase ==
  /\ pre.op = "return"
  /\ MayCirculate(pre.caller)
  /\ OtpWellFormed(pre.otpCode)
  /\ MatchedRows # {}

\* C5: a return whose code differs from the stored code of the matching ISSUED
\* row is answered INVALID_OTP and leaves the rows and the book as they were.
C5_Case == ReturnCase /\ \A i \in MatchedRows : pre.issues[i].otpCode # pre.otpCode

C5_WrongCodeRejected ==
  C5_Case => /\ req[1].pc = "done"
             /\ req[1].result = "INVALID_OTP"
             /\ StoreAsBefore

C5_Witness == C5_Case /\ Answered("return") /\ req[1].result = "INVALID_OTP"

\* C6: a return made after the stored expiry of the matching ISSUED row is
\* answered OTP_EXPIRED although the code is the stored one, and leaves the
\* rows and the book as they were.
C6_Case ==
  /\ ReturnCase
  /\ \A i \in MatchedRows : /\ pre.issues[i].otpCode = pre.otpCode
                            /\ pre.at > pre.issues[i].otpExpires

C6_ExpiredCodeRejected ==
  C6_Case => /\ req[1].pc = "done"
             /\ req[1].result = "OTP_EXPIRED"
             /\ StoreAsBefore

C6_Witness == C6_Case /\ Answered("return") /\ req[1].result = "OTP_EXPIRED"

\* C7: a successful issue followed at once by a successful return of the same
\* book by the same user leaves availableCopies and status as before the issue.
C7_Case ==
  /\ Answered("return") /\ req[1].result = "BOOK_RETURNED"
  /\ pre.before # EmptyMap

C7_RoundTrip ==
  C7_Case =>
    /\ pre.bookId \in DOMAIN books
    /\ books[pre.bookId].availableCopies = pre.before[pre.bookId].availableCopies
    /\ books[pre.bookId].status = pre.before[pre.bookId].status

\* The round trip of the last copy: the status went to ISSUED and came back.
C7_Witness ==
  /\ C7_Case
  /\ pre.before[pre.bookId].availableCopies = 1
  /\ pre.books[pre.bookId].status = "ISSUED"

\* C8: a successful return marks one matched row RETURNED, stamps its return
\* date, leaves every other row alone, adds exactly 1 to availableCopies and
\* sets the book's status to AVAILABLE whatever it was.
C8_ReturnEffect ==
  (Answered("return") /\ req[1].result = "BOOK_RETURNED") =>
    LET b == pre.bookId IN
    /\ DOMAIN issues = DOMAIN pre.issues
    /\ \E i \in MatchedRows :
         /\ issues[i].status = "RETURNED"
         /\ issues[i].returnDate # NoDate
         /\ pre.at <= issues[i].returnDate /\ issues[i].returnDate <= now
         /\ issues[i] = [pre.issues[i] EXCEPT !.status = "RETURNED",
                                              !.returnDate = issues[i].returnDate]
         /\ \A j \in DOMAIN issues \ {i} : issues[j] = pre.issues[j]
    /\ DOMAIN books = DOMAIN pre.books
    /\ books[b].totalCopies = pre.books[b].totalCopies
    /\ books[b].availableCopies = pre.books[b].availableCopies + 1
    /\ books[b].status = "AVAILABLE"

\* A successful return of a book whose status was ISSUED.
C8_Witness ==
  /\ Answered("return") /\ req[1].result = "BOOK_RETURNED"
  /\ pre.books[pre.bookId].status = "ISSUED"

\* C9: a request that fails between its writes leaves none of them visible,
\* and at rest every ISSUED row is matched by a copy taken from availableCopies.
C9_FailureLeavesNoTrace ==
  /\ (req[1].pc = "done" /\ req[1].result = "INTERNAL_SERVER_ERROR") => StoreAsBefore
  /\ ~InFlight(1) =>
       \A b \in DOMAIN books :
         books[b].availableCopies + Cardinality(ActiveIssuesOf(issues, b))
           = books[b].totalCopies

\* C10: a delete by an ADMIN of an existing book is answered
\* BOOK_WITH_ACTIVE_ISSUES and removes nothing when the book has an ISSUED row,
\* and removes the book when it has none; no ISSUED row refers to a missing book.
C10_Case ==
  /\ pre.op = "delete"
  /\ CallerRole(pre.caller) = "ADMIN"
  /\ pre.bookId \in DOMAIN pre.books

C10_DeleteGuard ==
  /\ C10_Case =>
       IF ActiveIssuesOf(pre.issues, pre.bookId) # {}
         THEN /\ req[1].pc = "done"
              /\ req[1].result = "BOOK_WITH_ACTIVE_ISSUES"
              /\ StoreAsBefore
         ELSE req[1].pc = "done" =>
                /\ req[1].result = "BOOK_DELETED"
                /\ pre.bookId \notin DOMAIN books
  /\ \A i \in DOMAIN issues :
       issues[i].status = "ISSUED" => issues[i].bookId \in DOMAIN books

C10_Witness ==
  /\ C10_Case /\ Answered("delete")
  /\ req[1].result = "BOOK_WITH_ACTIVE_ISSUES"
  /\ ActiveIssuesOf(issues, pre.bookId) # {}

\* The step in which the transfer of slot r takes effect: the write of the
\* book's owner succeeds.
TransferTakesEffect(r) ==
  /\ req[r].op = "transfer"
  /\ \/ req[r].pc = "commit" /\ req'[r].result = "OWNERSHIP_TRANSFERRED"
     \/ req[r].pc = "updateBook" /\ req'[r].pc = "createAudit"

\* The step in which the transfer of slot r writes its audit row.
TransferIsLogged(r) ==
  /\ req[r].op = "transfer"
  /\ \/ req[r].pc = "commit" /\ req'[r].result = "OWNERSHIP_TRANSFERRED"
     \/ req[r].pc = "createAudit" /\ req'[r].pc = "reread"

\* C11: a successful transfer adds exactly one audit row for the book; its
\* fromOwnerId is the book's owner immediately before the owner was written,
\* its toOwnerId the new owner and its performedById the caller.
C11_AuditMatchesTransfer ==
  [][\A r \in ReqIds :
       /\ TransferTakesEffect(r) =>
            /\ TransferAudit(r).fromOwnerId = books[req[r].bookId].ownerId
            /\ TransferAudit(r).toOwnerId = books'[req[r].bookId].ownerId
       /\ TransferIsLogged(r) =>
            /\ Len(audits') = Len(audits) + 1
            /\ SubSeq(audits', 1, Len(audits)) = audits
            /\ audits'[Len(audits')].bookId = req[r].bookId
            /\ audits'[Len(audits')].fromOwnerId = TransferAudit(r).fromOwnerId
            /\ audits'[Len(audits')].toOwnerId = req[r].newOwnerId
            /\ audits'[Len(audits')].performedById = req[r].caller]_vars

\* A transfer request that passes every check before the one on the target
\* being the current owner.
C12_Case ==
  /\ pre.op = "transfer"
  /\ TransferGate(pre.via, pre.caller) = "pass"
  /\ pre.bookId \in DOMAIN pre.books
  /\ pre.newOwnerId \in Users /\ UserRole[pre.newOwnerId] = "BOOKKEEPER"
  /\ pre.caller = pre.books[pre.bookId].ownerId \/ CallerRole(pre.caller) = "ADMIN"
  /\ pre.newOwnerId = pre.books[pre.bookId].ownerId

\* C12: on every transfer entry point, a transfer to the book's current owner
\* is answered SAME_OWNER, adds no audit row and leaves the owner unchanged.
C12_NoOpTransferRejected ==
  C12_Case =>
    /\ req[1].pc = "done" => req[1].result = "SAME_OWNER"
    /\ audits = pre.audits
    /\ books = pre.books

\* The audit rows of book b, in order of creation.
AuditsOf(b) == SelectSeq(audits, LAMBDA a : a.bookId = b)

\* C13: whenever no request is in flight, a failed one included, the owner of
\* every book that has audit rows is the toOwnerId of the most recent of them.
C13_OwnerIsLastAudit ==
  (\A r \in ReqIds : ~InFlight(r)) =>
    \A b \in DOMAIN books :
      AuditsOf(b) # <<>> =>
        books[b].ownerId = AuditsOf(b)[Len(AuditsOf(b))].toOwnerId

\* C14: in every reachable state, overlapping transfers included, the audit
\* rows of a book in order of creation start with fromOwnerId = null, and each
\* later row's fromOwnerId is the toOwnerId of the row before it.
C14_ProvenanceChain ==
  \A b \in DOMAIN books :
    LET chain == AuditsOf(b) IN
    \A k \in 1..Len(chain) :
      chain[k].fromOwnerId = IF k = 1 THEN NoOwner ELSE chain[k - 1].toOwnerId

\* No two books of a Book table share an ISBN.
IsbnsDistinctIn(table) ==
  \A a, b \in DOMAIN table : table[a].isbn = table[b].isbn => a = b

\* A create request, admitted by the role check and the schema, whose ISBN a
\* book holds.
C15_CreateCase ==
  /\ pre.op = "create"
  /\ CallerRole(pre.caller) \in {"ADMIN", "BOOKKEEPER"}
  /\ pre.totalCopies >= 1
  /\ \E b \in DOMAIN pre.books : pre.books[b].isbn = pre.isbn

\* An update request, admitted by the role check and the schema, that changes
\* the ISBN of an existing book to one another book holds.
C15_UpdateCase ==
  /\ pre.op = "update"
  /\ CallerRole(pre.caller) = "ADMIN"
  /\ \A n \in pre.data.totalCopies : n >= 1
  /\ pre.bookId \in DOMAIN pre.books
  /\ \E i \in pre.data.isbn : \E b \in DOMAIN pre.books \ {pre.bookId} :
       pre.books[b].isbn = i

C16_BookHasInitialAudit ==
  (\A r \in ReqIds : ~InFlight(r)) =>
    \A b \in DOMAIN books :
      LET first == SelectSeq(AuditsOf(b), LAMBDA a : a.fromOwnerId = NoOwner)
      IN /\ Len(first) = 1
         /\ first[1].toOwnerId = first[1].performedById

\* C17: an issue or return request is turned away by the role check exactly
\* when its caller's role is neither ADMIN nor BOOKKEEPER, and a request
\* turned away writes nothing.
C17_CirculationRoles ==
  (pre.op \in {"issue", "return"} /\ req[1].pc = "done") =>
    /\ req[1].result = "UNAUTHORIZED"
         <=> CallerRole(pre.caller) \notin {"ADMIN", "BOOKKEEPER"}
    /\ req[1].result = "UNAUTHORIZED" => StoreAsBefore

\* C18: an update of an existing book is turned away exactly when its caller
\* is neither the book's owner nor an ADMIN, and then writes nothing; an
\* update of a missing book with well-formed data, by a caller who passes the
\* role check, is answered BOOK_NOT_FOUND.
C18_UpdateByOwnerOrAdmin ==
  (pre.op = "update" /\ req[1].pc = "done") =>
    IF pre.bookId \in DOMAIN pre.books
      THEN /\ req[1].result \in {"UNAUTHORIZED", "FORBIDDEN"}
                <=> ~(\/ pre.caller = pre.books[pre.bookId].ownerId
                      \/ CallerRole(pre.caller) = "ADMIN")
           /\ req[1].result \in {"UNAUTHORIZED", "FORBIDDEN"} =>
                books = pre.books /\ audits = pre.audits
      ELSE (CallerRole(pre.caller) = "ADMIN" /\ UpdateDataValid(pre.data))
             => req[1].result = "BOOK_NOT_FOUND"

\* A transfer request that reaches the checks on the target user.
TransferReachesChecks ==
  /\ pre.op = "transfer"
  /\ TransferGate(pre.via, pre.caller) = "pass"
  /\ pre.bookId \in DOMAIN pre.books

\* C19: a transfer whose target user does not exist or is not a BOOKKEEPER is
\* answered that the new owner is invalid, and changes neither the book's
\* owner nor the audit rows.
C19_Case ==
  /\ TransferReachesChecks
  /\ pre.newOwnerId \notin Users \/ UserRole[pre.newOwnerId] # "BOOKKEEPER"

C19_InvalidNewOwnerRejected ==
  C19_Case =>
    /\ req[1].pc = "done" =>
         req[1].result \in {"NEW_OWNER_NOT_FOUND", "NEW_OWNER_NOT_BOOKKEEPER"}
    /\ books = pre.books /\ audits = pre.audits

\* A transfer to an existing user who is no bookkeeper, by a caller who may
\* transfer the book, was refused.
C19_Witness ==
  /\ C19_Case /\ Answered("transfer")
  /\ pre.newOwnerId \in Users
  /\ CallerRole(pre.caller) = "ADMIN"
  /\ req[1].result = "NEW_OWNER_NOT_BOOKKEEPER"

\* C20: a transfer to a valid target by a caller who is neither the book's
\* current owner nor an ADMIN is answered TRANSFER_FORBIDDEN, and changes
\* neither the book's owner nor the audit rows.
C20_Case ==
  /\ TransferReachesChecks
  /\ pre.newOwnerId \in Users /\ UserRole[pre.newOwnerId] = "BOOKKEEPER"
  /\ pre.caller # pre.books[pre.bookId].ownerId
  /\ CallerRole(pre.caller) # "ADMIN"

C20_NonOwnerRejected ==
  C20_Case =>
    /\ req[1].pc = "done" => req[1].result = "TRANSFER_FORBIDDEN"
    /\ books = pre.books /\ audits = pre.audits

\* A bookkeeper who does not own the book was refused.
C20_Witness ==
  /\ C20_Case /\ Answered("transfer")
  /\ CallerRole(pre.caller) = "BOOKKEEPER"
  /\ req[1].result = "TRANSFER_FORBIDDEN"

\* C21: in every state the owner of every book is a user whose role is
\* BOOKKEEPER.
C21_OwnersAreBookkeepers ==
  \A b \in DOMAIN books :
    /\ books[b].ownerId \in Users
    /\ roles[books[b].ownerId] = "BOOKKEEPER"

\* C22: in every step, a new Issue row starts as ISSUED and is written by an
\* issue request; an existing row keeps its status, or goes from ISSUED to
\* RETURNED in the update of a return request that names it. A RETURNED row
\* stays RETURNED, and no row is ever OVERDUE or LOST.
C22_IssueStatusSteps ==
  [][\A i \in DOMAIN issues' :
       IF i \in DOMAIN issues
         THEN \/ issues'[i].status = issues[i].status
              \/ /\ issues[i].status = "ISSUED" /\ issues'[i].status = "RETURNED"
                 /\ \E r \in ReqIds : /\ req[r].op = "return"
                                      /\ req[r].pc = "updateIssue"
                                      /\ req[r].bookIssue = i
         ELSE /\ issues'[i].status = "ISSUED"
              /\ \E r \in ReqIds : req[r].op = "issue" /\ req[r].pc = "createIssue"
    ]_vars

\* A row was returned while another row of the book is still ISSUED.
C22_Witness ==
  \E i, j \in DOMAIN issues :
    issues[i].status = "RETURNED" /\ issues[j].status = "ISSUED"

\* C23: in every state each book's status is ISSUED if and only if its
\* availableCopies is 0, and AVAILABLE otherwise.
C23_StatusTracksCopies ==
  \A b \in DOMAIN books :
    books[b].status = IF books[b].availableCopies = 0 THEN "ISSUED" ELSE "AVAILABLE"

\* A created book has a copy out and copies left, and the last copy of the
\* first book is out.
C23_Witness ==
  /\ \E b \in DOMAIN books \ BookIds :
       /\ books[b].availableCopies = books[b].totalCopies - 1
       /\ books[b].availableCopies > 0
  /\ \E b \in BookIds : books[b].availableCopies = 0
  /\ ~InFlight(1)

\* C24: in every state, for every book, the number of Issue rows with status
\* ISSUED is at most the book's totalCopies.
C24_IssuedWithinTotal ==
  \A b \in DOMAIN books : Cardinality(ActiveIssues(b)) <= books[b].totalCopies

\* C25: in every state there is at most one Issue row with status ISSUED for
\* any pair of a book and a user.
C25_OneIssuedRowPerPair ==
  \A b \in DOMAIN books : \A u \in Users : Cardinality(IssuedRows(b, u)) <= 1

\* C26 as stated: in every step every existing audit row stays in the table,
\* unchanged and in its place; rows are only added.
C26_AuditsAppendOnly ==
  [][/\ Len(audits') >= Len(audits)
     /\ \A k \in 1..Len(audits) : audits'[k] = audits[k]]_vars

\* The audit rows of book b in the table as it was when the request began,
\* oldest first.
AuditsBefore(b) == SelectSeq(pre.audits, LAMBDA a : a.bookId = b)

\* C27: a history request by any signed-in user is answered, for an existing
\* book, with exactly the audit rows of that book, newest first, and for a
\* missing book with BOOK_NOT_FOUND; it changes nothing in the store.
C27_HistoryComplete ==
  (Answered("history") /\ pre.caller \in Users) =>
    /\ IF pre.bookId \in DOMAIN pre.books
         THEN /\ req[1].result = "OK"
              /\ Len(req[1].history) = Len(AuditsBefore(pre.bookId))
              /\ \A k \in 1..Len(req[1].history) :
                   req[1].history[k] =
                     AuditsBefore(pre.bookId)[Len(req[1].history) + 1 - k]
         ELSE req[1].result = "BOOK_NOT_FOUND"
    /\ books = pre.books /\ audits = pre.audits /\ issues = pre.issues

\* The audit rows of book b in an audit table, in order of creation.
AuditsOfIn(table, b) == SelectSeq(table, LAMBDA a : a.bookId = b)

\* C26, amended: in every step, for every book that exists before and after
\* it, the book's audit rows stay, unchanged and in order, and rows are only
\* added at the end; a book's rows go only when the book itself is deleted.
C26_AuditsKeptWhileBookExists ==
  [][\A b \in CatalogueBookIds :
       LET old == AuditsOfIn(audits, b)
           new == AuditsOfIn(audits', b)
       IN IF b \in DOMAIN books /\ b \in DOMAIN books'
            THEN /\ Len(new) >= Len(old)
                 /\ \A k \in 1..Len(old) : new[k] = old[k]
            ELSE \/ b \in DOMAIN books /\ new = <<>>
                 \/ \A k \in 1..Len(old) : k <= Len(new) /\ new[k] = old[k]
    ]_vars

\* The first book was deleted, and a transfer added a row to the log of a
\* book that is still there.
C26_Witness ==
  /\ FirstBook \notin DOMAIN books
  /\ \E b \in DOMAIN books : Len(AuditsOf(b)) >= 2

\* C28: an Issue row is returned at most once: the return request that writes
\* a row as RETURNED finds it ISSUED, and the book update of a return leaves
\* availableCopies exactly 1 above what it was.
C28_ReturnedOnce ==
  [][\A r \in ReqIds :
       /\ (/\ req[r].op = "return" /\ req[r].pc = "updateIssue"
           /\ req'[r].pc = "findBook")
            => issues[req[r].bookIssue].status = "ISSUED"
       /\ (/\ req[r].op = "return" /\ req[r].pc = "updateBook"
           /\ req'[r].result = "BOOK_RETURNED")
            => books'[req[r].bookId].availableCopies =
                 books[req[r].bookId].availableCopies + 1
    ]_vars

\* C29: after a successful update that supplies totalCopies, the book has
\* 0 <= availableCopies <= totalCopies, and totalCopies is at least the number
\* of the book's Issue rows with status ISSUED.
C29_UpdateKeepsStock ==
  (/\ Answered("update") /\ req[1].result = "BOOK_UPDATED"
   /\ pre.data.totalCopies # {}) =>
    LET book == books[pre.bookId] IN
    /\ 0 <= book.availableCopies
    /\ book.availableCopies <= book.totalCopies
    /\ Cardinality(ActiveIssues(pre.bookId)) <= book.totalCopies

\* Whether some request can still take row i of an Issue table to RETURNED:
\* its code has not expired at time t, so that a return carrying the code
\* passes the checks, or a return that passed them is about to write the row.
ReturnableIn(table, slots, t, i) ==
  \/ ~OtpExpired(table[i], t)
  \/ \E r \in ReqIds : /\ slots[r].op = "return" /\ slots[r].pc = "updateIssue"
                       /\ slots[r].bookIssue = i

\* An ISSUED row that is not returnable stays so in every step: it is never
\* written as RETURNED, its code and expiry are never rewritten, and the
\* clock does not go back. (It can only go with its book.)
ExpiredLoanIsStuck ==
  [][\A i \in DOMAIN issues :
       (/\ issues[i].status = "ISSUED"
        /\ ~ReturnableIn(issues, req, now, i)
        /\ i \in DOMAIN issues')
         => /\ issues'[i].status = "ISSUED"
            /\ ~ReturnableIn(issues', req', now', i)
    ]_vars

\* C30: every loan stays returnable: in every state, for every Issue row with
\* status ISSUED, some sequence of requests takes the row to RETURNED. By
\* ExpiredLoanIsStuck no such sequence starts where ReturnableIn is false.
C30_LoansStayReturnable ==
  \A i \in DOMAIN issues :
    issues[i].status = "ISSUED" => ReturnableIn(issues, req, now, i)
====
